---- MODULE Spec2Model ----
(***************************************************************************)
(* Model of the OCR extraction pipeline of src/App.tsx: the React state    *)
(* docState / apiError, the shared ref isTerminatedRef, and every          *)
(* invocation of handleFileUpload (a "run") with its processPage tasks.    *)
(*                                                                         *)
(* JavaScript is single threaded: an action is one macrotask (a user       *)
(* event, or the settlement of one awaited external promise) together with *)
(* all the microtask continuations it triggers (the rest of processPage,   *)
(* the resolution of Promise.all and the continuation of handleFileUpload  *)
(* up to its next await on an external promise).                           *)
(* setDocState updaters are applied in call order.                         *)
(*                                                                         *)
(* Not modelled: the elapsed-time timer, the chat, the exporters, and the  *)
(* timing fields (durationMs, startTime, totalDurationMs, imagePreview).   *)
(***************************************************************************)
EXTENDS Integers, Sequences, FiniteSets, TLC

\* ---- bounds ----------------------------------------------------------
\* largest page count for which the progress expression is evaluated on its
\* own (SpecProgress)
MaxTotalPages == 200
\* number of handleFileUpload invocations between two page loads
MaxRuns == 2
\* largest pdf.numPages of an uploaded file
MaxPages == 4
\* largest pdf.numPages of an uploaded file in the liveness specification
\* (SpecLive); 3 pages are a full batch followed by a partial one
MaxLivePages == 3
\* src/App.tsx:128 sets 12; scaled down so that documents of MaxPages pages
\* span several batches
concurrencyLimit == 2

Runs == 1..MaxRuns
PageNums == 1..MaxPages

\* ---- inputs ----------------------------------------------------------
FileNames == <<"a", "b", "c">>
\* event.target.files[0]: a PDF with a name and a page count.  File names are
\* interchangeable, so the k-th upload draws from the first k names only.
Files(k) ==
  [name : {FileNames[n] : n \in 1..(IF k < Len(FileNames) THEN k ELSE Len(FileNames))},
   numPages : 1..MaxPages]
NoFile == [name |-> "", numPages |-> 0]
\* error.message of a rejected external promise ("" exercises the fallback)
ErrorMessages == {"rate limited"}

\* no evaluation of the progress expression is being looked at
NoCall == [n |-> 0, t |-> 0, progress |-> -1]

NoError == "null"
TerminatedMessage == "Processing terminated by user."
CriticalMessage == "A critical error occurred during processing."
\* the separator of results.map(...).join(...)
SEP == "\n\n---\n\n"

VARIABLES
  docState,         \* useState<DocumentState>
  apiError,         \* useState<string | null>
  isTerminatedRef,  \* useRef<boolean>, shared by all runs
  nruns,            \* handleFileUpload invocations since page load
  pc,               \* per run: position of handleFileUpload
  file,             \* per run: the uploaded file
  totalPages,       \* per run: const totalPages (0 until the PDF is loaded)
  i,                \* per run: loop variable of the batch loop
  task,             \* per run and page: position/outcome of processPage(pageNum)
  results,          \* per run: const results: OCRPage[]
  cancelledRuns,    \* history: runs during which stopExtraction was called
  lateTasks,        \* history: <<run, page>> whose performOCR call is pending
                    \* since before a call of stopExtraction
  chunks,           \* history, per run: the batches dispatched so far, in order
  ocrCalls,         \* history, per run and page: number of performOCR calls
  roundCall         \* arguments and result of one evaluation of the progress
                    \* expression of processPage (used by SpecProgress only)

vars == <<docState, apiError, isTerminatedRef, nruns, pc, file, totalPages,
          i, task, results, cancelledRuns, lateTasks, chunks, ocrCalls, roundCall>>

\* ---- pure helpers ----------------------------------------------------
\* the text performOCR returns for page p of file f (content of the page)
performOCR(f, p) == f.name \o ToString(p)

\* const newPage: OCRPage = { pageNumber, extractedText, ... }
newPage(r, p) == [pageNumber |-> p, extractedText |-> performOCR(file[r], p)]

\* The <<n, t>> with t <= 400 for which the double (n / t) * 100 falls just
\* below k + 0.5 although 100 n / t is exactly k + 0.5 (e.g. (23 / 40) * 100
\* is 57.49999999999999): Math.round gives k there, not k + 1.
DoubleBelowHalf ==
  { <<23, 40>>, <<46, 80>>, <<69, 120>>, <<92, 160>>, <<29, 200>>, <<57, 200>>,
    <<113, 200>>, <<115, 200>>, <<138, 240>>, <<161, 280>>, <<184, 320>>,
    <<207, 360>>, <<58, 400>>, <<114, 400>>, <<226, 400>>, <<230, 400>> }

\* (mutant of Round100: Math.ceil instead of Math.round)
Ceil100(n, t) == (100 * n + t - 1) \div t

\* Math.round((n / t) * 100), for t <= 400: round half up of 100 n / t, less
\* the cases where the double arithmetic loses the half
Round100(n, t) ==
  (200 * n + t) \div (2 * t) - (IF <<n, t>> \in DoubleBelowHalf THEN 1 ELSE 0)

RECURSIVE InsertPage(_, _)
InsertPage(s, pg) ==
  IF s = <<>> THEN <<pg>>
  ELSE IF pg.pageNumber < Head(s).pageNumber THEN <<pg>> \o s
  ELSE <<Head(s)>> \o InsertPage(Tail(s), pg)

\* Array.prototype.sort((a, b) => a.pageNumber - b.pageNumber): stable
RECURSIVE SortPages(_)
SortPages(s) ==
  IF s = <<>> THEN <<>>
  ELSE InsertPage(SortPages(SubSeq(s, 1, Len(s) - 1)), s[Len(s)])

\* results.map(p => p.extractedText).join(SEP)
RECURSIVE JoinText(_)
JoinText(s) ==
  IF s = <<>> THEN ""
  ELSE IF Len(s) = 1 THEN s[1].extractedText
  ELSE s[1].extractedText \o SEP \o JoinText(Tail(s))

Min(a, b) == IF a < b THEN a ELSE b

\* (mutant of batch: the slice is not cut at the end of pageNumbers)
batchUnclamped(k, t) == (k + 1)..(k + concurrencyLimit)

\* pageNumbers.slice(k, k + concurrencyLimit), pageNumbers = 1..t
batch(k, t) == (k + 1)..Min(k + concurrencyLimit, t)

\* batchResults.filter(r => r !== null), in batch order
RECURSIVE batchResults(_, _, _, _)
batchResults(r, t1, lo, hi) ==
  IF lo > hi THEN <<>>
  ELSE (IF t1[lo] = "page" THEN <<newPage(r, lo)>> ELSE <<>>)
       \o batchResults(r, t1, lo + 1, hi)

\* error.message || "A critical error occurred during processing."
ErrorText(msg) == IF msg = "" THEN CriticalMessage ELSE msg

\* ---- initial state ---------------------------------------------------
Init ==
  /\ docState = [fileName |-> "", pages |-> <<>>, fullText |-> "",
                 status |-> "idle", progress |-> 0]
  /\ apiError = NoError
  /\ isTerminatedRef = FALSE
  /\ nruns = 0
  /\ pc = [r \in Runs |-> "none"]
  /\ file = [r \in Runs |-> NoFile]
  /\ totalPages = [r \in Runs |-> 0]
  /\ i = [r \in Runs |-> 0]
  /\ task = [r \in Runs |-> [p \in PageNums |-> "none"]]
  /\ results = [r \in Runs |-> <<>>]
  /\ cancelledRuns = {}
  /\ lateTasks = {}
  /\ chunks = [r \in Runs |-> <<>>]
  /\ ocrCalls = [r \in Runs |-> [p \in PageNums |-> 0]]
  /\ roundCall = NoCall

\* ---- the progress expression on its own --------------------------------
\* updatedPages.length = n of totalPages = t, for every document size
InitProgress ==
  /\ docState = [fileName |-> "", pages |-> <<>>, fullText |-> "",
                 status |-> "idle", progress |-> 0]
  /\ apiError = NoError
  /\ isTerminatedRef = FALSE
  /\ nruns = 0
  /\ pc = [r \in Runs |-> "none"]
  /\ file = [r \in Runs |-> NoFile]
  /\ totalPages = [r \in Runs |-> 0]
  /\ i = [r \in Runs |-> 0]
  /\ task = [r \in Runs |-> [p \in PageNums |-> "none"]]
  /\ results = [r \in Runs |-> <<>>]
  /\ cancelledRuns = {}
  /\ lateTasks = {}
  /\ chunks = [r \in Runs |-> <<>>]
  /\ ocrCalls = [r \in Runs |-> [p \in PageNums |-> 0]]
  /\ \E t \in 1..MaxTotalPages :
       \E n \in 1..t : roundCall = [n |-> n, t |-> t, progress |-> -1]

\* const progress = Math.round((updatedPages.length / totalPages) * 100)
ComputeProgress ==
  /\ roundCall.progress = -1
  /\ roundCall.t > 0
  /\ roundCall' = [roundCall EXCEPT !.progress = Round100(roundCall.n, roundCall.t)]
  /\ UNCHANGED <<docState, apiError, isTerminatedRef, nruns, pc, file, totalPages,
                  i, task, results, cancelledRuns, lateTasks, chunks, ocrCalls>>

SpecProgress == InitProgress /\ [][ComputeProgress]_vars

\* ---- handleFileUpload: continuation after an await --------------------
\* The batch loop from its condition on, with loop variable k, results res1,
\* tasks t1 and docState ds1: dispatch the next batch and await it, or leave
\* the loop and return / finalize.
Loop(r, k, res1, t1, ds1) ==
  IF k < totalPages'[r] /\ ~isTerminatedRef
  THEN \* batch.map(num => processPage(num)): each task passes its first
       \* isTerminatedRef check and awaits pdf.getPage
       /\ task' = [task EXCEPT ![r] =
                     [p \in PageNums |->
                        IF p \in batch(k, totalPages'[r]) THEN "raster" ELSE t1[p]]]
       /\ chunks' = [chunks EXCEPT ![r] = Append(@, batch(k, totalPages'[r]))]
       /\ i' = [i EXCEPT ![r] = k]
       /\ results' = [results EXCEPT ![r] = res1]
       /\ pc' = [pc EXCEPT ![r] = "await"]
       /\ docState' = ds1
       /\ UNCHANGED apiError
  ELSE /\ task' = [task EXCEPT ![r] = t1]
       /\ i' = [i EXCEPT ![r] = k]
       /\ UNCHANGED <<apiError, chunks>>
       /\ IF isTerminatedRef
          THEN \* if (isTerminatedRef.current) return;
               /\ results' = [results EXCEPT ![r] = res1]
               /\ pc' = [pc EXCEPT ![r] = "returned"]
               /\ docState' = ds1
          ELSE \* results.sort(...); fullText; setDocState(completed)
               /\ results' = [results EXCEPT ![r] = SortPages(res1)]
               /\ pc' = [pc EXCEPT ![r] = "completed"]
               /\ docState' = [ds1 EXCEPT !.pages = SortPages(res1),
                                          !.fullText = JoinText(SortPages(res1)),
                                          !.status = "completed",
                                          !.progress = 100]

\* (mutant of Catch: the rejection of a batch is swallowed inside the loop and
\* the loop goes on with the next batch)
CatchAndContinue(r, t1, ds1, msg) ==
  Loop(r, i[r] + concurrencyLimit, results[r], t1, ds1)

\* (mutant of Catch: the catch block reports the error but leaves status as
\* it is)
CatchKeepsStatus(r, t1, ds1, msg) ==
  /\ apiError' = ErrorText(msg)
  /\ docState' = ds1
  /\ pc' = [pc EXCEPT ![r] = "error"]
  /\ task' = [task EXCEPT ![r] = t1]
  /\ UNCHANGED <<i, results, chunks>>

\* The catch block of handleFileUpload.
Catch(r, t1, ds1, msg) ==
  /\ apiError' = ErrorText(msg)
  /\ docState' = [ds1 EXCEPT !.status = "error"]
  /\ pc' = [pc EXCEPT ![r] = "error"]
  /\ task' = [task EXCEPT ![r] = t1]
  /\ UNCHANGED <<i, results, chunks>>

\* (mutant of AllFulfilled: the batch counts as done once any one of its
\* tasks is fulfilled, as with Promise.any)
AnyFulfilled(r, t1) ==
  \E p \in batch(i[r], totalPages[r]) : t1[p] \in {"page", "null"}

\* Promise.all(batch.map(...)) is fulfilled when every task of the batch is
\* fulfilled and rejected as soon as one is rejected.
AllFulfilled(r, t1) ==
  \A p \in batch(i[r], totalPages[r]) : t1[p] \in {"page", "null"}

\* What follows the settlement of task p of run r, whose tasks are now t1,
\* the docState ds1 and (for a rejection) the error message msg.
Settle(r, p, t1, ds1, msg) ==
  /\ UNCHANGED <<isTerminatedRef, nruns, file, totalPages, cancelledRuns, roundCall>>
  /\ lateTasks' = IF t1[p] \in {"page", "null", "thrown"}
                  THEN lateTasks \ {<<r, p>>} ELSE lateTasks
  /\ IF pc[r] # "await"
     THEN \* Promise.all was rejected before: nobody awaits this task
          /\ task' = [task EXCEPT ![r] = t1]
          /\ docState' = ds1
          /\ UNCHANGED <<apiError, pc, i, results, chunks>>
     ELSE IF \E q \in batch(i[r], totalPages[r]) : t1[q] = "thrown"
     THEN Catch(r, t1, ds1, msg)
     ELSE IF AllFulfilled(r, t1)
     THEN Loop(r, i[r] + concurrencyLimit,
               results[r] \o batchResults(r, t1, i[r] + 1,
                                          Min(i[r] + concurrencyLimit, totalPages[r])),
               t1, ds1)
     ELSE /\ task' = [task EXCEPT ![r] = t1]
          /\ docState' = ds1
          /\ UNCHANGED <<apiError, pc, i, results, chunks>>

\* ---- user events -----------------------------------------------------
\* The "Terminate" button, rendered while status is processing.
stopExtraction ==
  /\ docState.status = "processing"
  /\ isTerminatedRef' = TRUE
  /\ docState' = [docState EXCEPT !.status = "idle", !.progress = 0]
  /\ apiError' = TerminatedMessage
  /\ cancelledRuns' = cancelledRuns \cup {nruns}
  /\ lateTasks' = lateTasks \cup
       {rp \in Runs \X PageNums : task[rp[1]][rp[2]] = "ocr"}
  /\ UNCHANGED <<nruns, pc, file, totalPages, i, task, results, chunks, ocrCalls,
                  roundCall>>

\* (mutant of handleFileUpload: the new run state is spread over prev, as
\* stopExtraction does, so pages and fullText of the previous run survive)
handleFileUploadKeepsPrev(f) ==
  /\ docState.status = "idle"
  /\ nruns < MaxRuns
  /\ nruns' = nruns + 1
  /\ isTerminatedRef' = FALSE
  /\ apiError' = NoError
  /\ docState' = [docState EXCEPT !.fileName = f.name, !.status = "processing",
                                  !.progress = 0]
  /\ pc' = [pc EXCEPT ![nruns + 1] = "loading"]
  /\ file' = [file EXCEPT ![nruns + 1] = f]
  /\ UNCHANGED <<totalPages, i, task, results, cancelledRuns, lateTasks, chunks,
                  ocrCalls, roundCall>>

\* The file input, rendered while status is idle: handleFileUpload up to
\* its first await.
handleFileUpload(f) ==
  /\ docState.status = "idle"
  /\ nruns < MaxRuns
  /\ nruns' = nruns + 1
  /\ isTerminatedRef' = FALSE
  /\ apiError' = NoError
  /\ docState' = [fileName |-> f.name, pages |-> <<>>, fullText |-> "",
                  status |-> "processing", progress |-> 0]
  /\ pc' = [pc EXCEPT ![nruns + 1] = "loading"]
  /\ file' = [file EXCEPT ![nruns + 1] = f]
  /\ UNCHANGED <<totalPages, i, task, results, cancelledRuns, lateTasks, chunks,
                  ocrCalls, roundCall>>

\* "Reset Application" in the error view: window.location.reload()
ResetApplication ==
  /\ docState.status = "error"
  /\ docState' = [fileName |-> "", pages |-> <<>>, fullText |-> "",
                  status |-> "idle", progress |-> 0]
  /\ apiError' = NoError
  /\ isTerminatedRef' = FALSE
  /\ nruns' = 0
  /\ pc' = [r \in Runs |-> "none"]
  /\ file' = [r \in Runs |-> NoFile]
  /\ totalPages' = [r \in Runs |-> 0]
  /\ i' = [r \in Runs |-> 0]
  /\ task' = [r \in Runs |-> [p \in PageNums |-> "none"]]
  /\ results' = [r \in Runs |-> <<>>]
  /\ cancelledRuns' = {}
  /\ lateTasks' = {}
  /\ chunks' = [r \in Runs |-> <<>>]
  /\ ocrCalls' = [r \in Runs |-> [p \in PageNums |-> 0]]
  /\ UNCHANGED roundCall

\* ---- settlements of external promises --------------------------------
\* file.arrayBuffer() and pdfjsLib.getDocument(...).promise are fulfilled:
\* totalPages is known and the batch loop is entered.
LoadDocument(r) ==
  /\ pc[r] = "loading"
  /\ totalPages' = [totalPages EXCEPT ![r] = file[r].numPages]
  /\ UNCHANGED <<isTerminatedRef, nruns, file, cancelledRuns, lateTasks, ocrCalls,
                  roundCall>>
  /\ Loop(r, 0, <<>>, task[r], docState)

\* ... or one of them is rejected (not a readable PDF)
LoadFails(r, msg) ==
  /\ pc[r] = "loading"
  /\ UNCHANGED <<isTerminatedRef, nruns, file, totalPages, cancelledRuns, lateTasks,
                  ocrCalls, roundCall>>
  /\ Catch(r, task[r], docState, msg)

\* pdf.getPage and page.render are fulfilled: second isTerminatedRef check,
\* then performOCR is called.
RenderPage(r, p) ==
  /\ task[r][p] = "raster"
  /\ ocrCalls' = IF isTerminatedRef THEN ocrCalls
                 ELSE [ocrCalls EXCEPT ![r][p] = @ + 1]
  /\ Settle(r, p, [task[r] EXCEPT ![p] = IF isTerminatedRef THEN "null" ELSE "ocr"],
            docState, "")

\* canvas.getContext('2d') gave null: processPage falls through to return null
NoContext(r, p) ==
  /\ task[r][p] = "raster"
  /\ UNCHANGED ocrCalls
  /\ Settle(r, p, [task[r] EXCEPT ![p] = "null"], docState, "")

\* pdf.getPage or page.render is rejected: processPage rethrows
RenderFails(r, p, msg) ==
  /\ task[r][p] = "raster"
  /\ UNCHANGED ocrCalls
  /\ Settle(r, p, [task[r] EXCEPT ![p] = "thrown"], docState, msg)

\* the setDocState updater of processPage
MergePage(ds, pg, t) ==
  [ds EXCEPT !.pages = SortPages(Append(ds.pages, pg)),
             !.progress = Round100(Len(ds.pages) + 1, t)]

\* (mutant of OCRSucceeds: processPage only returns newPage, the page
\* reaches docState with the results at the end of the run)
OCRSucceedsDeferred(r, p) ==
  /\ task[r][p] = "ocr"
  /\ UNCHANGED ocrCalls
  /\ Settle(r, p, [task[r] EXCEPT ![p] = "page"], docState, "")

\* performOCR is fulfilled: the page is merged unless isTerminatedRef is set,
\* and processPage returns newPage in both cases.
OCRSucceeds(r, p) ==
  /\ task[r][p] = "ocr"
  /\ UNCHANGED ocrCalls
  /\ Settle(r, p, [task[r] EXCEPT ![p] = "page"],
            IF ~isTerminatedRef
            THEN MergePage(docState, newPage(r, p), totalPages[r])
            ELSE docState,
            "")

\* (mutant of OCRFails: the catch of processPage calls performOCR once more
\* instead of rethrowing)
OCRFailsRetried(r, p, msg) ==
  /\ task[r][p] = "ocr"
  /\ ocrCalls[r][p] < 2
  /\ ocrCalls' = [ocrCalls EXCEPT ![r][p] = @ + 1]
  /\ UNCHANGED <<docState, apiError, isTerminatedRef, nruns, pc, file, totalPages,
                  i, task, results, cancelledRuns, lateTasks, chunks, roundCall>>

\* performOCR is rejected: processPage rethrows
OCRFails(r, p, msg) ==
  /\ task[r][p] = "ocr"
  /\ UNCHANGED ocrCalls
  /\ Settle(r, p, [task[r] EXCEPT ![p] = "thrown"], docState, msg)

Next ==
  \/ stopExtraction
  \/ \E f \in Files(nruns + 1) : handleFileUpload(f)
  \/ ResetApplication
  \/ \E r \in Runs : LoadDocument(r)
  \/ \E r \in Runs, msg \in ErrorMessages : LoadFails(r, msg)
  \/ \E r \in Runs, p \in PageNums : RenderPage(r, p)
  \/ \E r \in Runs, p \in PageNums : NoContext(r, p)
  \/ \E r \in Runs, p \in PageNums, msg \in ErrorMessages : RenderFails(r, p, msg)
  \/ \E r \in Runs, p \in PageNums : OCRSucceeds(r, p)
  \/ \E r \in Runs, p \in PageNums, msg \in ErrorMessages : OCRFails(r, p, msg)

Spec == Init /\ [][Next]_vars

\* ---- derived notions used by the properties ---------------------------
Settled == {"page", "null", "thrown"}
Outstanding == {rp \in Runs \X PageNums : task[rp[1]][rp[2]] \in {"raster", "ocr"}}
\* index of the batch page p belongs to
ChunkOf(p) == (p - 1) \div concurrencyLimit

TypeOK ==
  /\ docState.status \in {"idle", "processing", "completed", "error"}
  /\ isTerminatedRef \in BOOLEAN
  /\ nruns \in 0..MaxRuns
  /\ \A r \in Runs : pc[r] \in {"none", "loading", "await", "completed", "error", "returned"}
  /\ \A r \in Runs, p \in PageNums :
       /\ task[r][p] \in {"none", "raster", "ocr", "page", "null", "thrown"}
       /\ ocrCalls[r][p] \in Nat

\* ---- properties -------------------------------------------------------
\* C1: a stopExtraction during Processing results in the Idle state with
\* pages empty and fullText empty, however many pages had succeeded.
C1_CancelDiscardsPages ==
  [][stopExtraction =>
       /\ docState'.status = "idle"
       /\ docState'.pages = <<>>
       /\ docState'.fullText = ""]_vars

\* C2: the successful settlement of a performOCR call that was pending when
\* stopExtraction was called leaves docState (pages, progress, fullText,
\* status) unchanged.
C2_LateSuccessDropped ==
  [][\A r \in Runs, p \in PageNums :
       (<<r, p>> \in lateTasks /\ OCRSucceeds(r, p)) => docState' = docState]_vars

\* C3: a run during which stopExtraction was called never reaches the
\* Completed transition nor the Error transition (the catch block).
C3_NoCompletedOrErrorAfterCancel ==
  \A r \in cancelledRuns : pc[r] \notin {"completed", "error"}

\* C4: the step that puts a run into Error (a task failed after some pages
\* had succeeded) leaves pages empty and fullText empty.
C4_ErrorDiscardsPages ==
  [][(docState.status # "error" /\ docState'.status = "error") =>
       (docState'.pages = <<>> /\ docState'.fullText = "")]_vars

\* C5: at most concurrencyLimit page tasks are outstanding at once.
C5_AtMostKOutstanding ==
  Cardinality(Outstanding) <= concurrencyLimit

\* C5, extraction calls only: at most concurrencyLimit performOCR calls are
\* pending at once.
C5_AtMostKExtractionCalls ==
  Cardinality({rp \in Outstanding : task[rp[1]][rp[2]] = "ocr"}) <= concurrencyLimit

\* C6: within a run, no task of a later batch is dispatched before every
\* task of each earlier batch has settled (fulfilled with a page, fulfilled
\* with null, or rejected).
C6_Barrier ==
  \A r \in Runs, p \in PageNums, q \in PageNums :
    (ChunkOf(p) < ChunkOf(q) /\ task[r][q] # "none") => task[r][p] \in Settled

\* C6 witness: a task of the second batch is pending after the tasks of the
\* first batch were fulfilled, one with a page and one with null.
C6_Witness ==
  \E r \in Runs :
    /\ task[r][concurrencyLimit + 1] \in {"raster", "ocr"}
    /\ \E p, q \in 1..concurrencyLimit : task[r][p] = "page" /\ task[r][q] = "null"

\* C7: in every Completed state pages holds exactly the T pages of a
\* completed run's document, pages[k].pageNumber = k (1-based).
C7_CompletedOrder ==
  docState.status = "completed" =>
    \E r \in Runs :
      /\ pc[r] = "completed"
      /\ Len(docState.pages) = totalPages[r]
      /\ \A k \in 1..Len(docState.pages) : docState.pages[k].pageNumber = k

\* C8: in every Completed state fullText is the texts of pages, in ascending
\* pageNumber order, joined by SEP.
C8_JoinCorrect ==
  docState.status = "completed" =>
    docState.fullText = JoinText(SortPages(docState.pages))

\* C9: pages is sorted strictly ascending by pageNumber (hence without
\* duplicates) in every reachable state.
C9_PagesStrictlySorted ==
  \A k \in 1..(Len(docState.pages) - 1) :
    docState.pages[k].pageNumber < docState.pages[k + 1].pageNumber

\* C10: while a run stays in Processing, no step decreases progress.
C10_ProgressMonotone ==
  [][(docState.status = "processing" /\ docState'.status = "processing"
        /\ nruns' = nruns)
       => docState'.progress >= docState.progress]_vars

\* C11: progress is 100 exactly in the Completed states.
C11_Progress100IffCompleted ==
  (docState.progress = 100) <=> (docState.status = "completed")

C13_StartAlwaysPermitted ==
  (docState.status \in {"idle", "completed", "error"} /\ nruns < MaxRuns)
    => ENABLED (\E f \in Files(nruns + 1) : handleFileUpload(f))

\* the steps of run r: settlements of the promises it awaits
RunStep(r) ==
  \/ LoadDocument(r)
  \/ \E msg \in ErrorMessages : LoadFails(r, msg)
  \/ \E p \in PageNums, msg \in ErrorMessages : RenderFails(r, p, msg) \/ OCRFails(r, p, msg)
  \/ \E p \in PageNums : RenderPage(r, p) \/ NoContext(r, p) \/ OCRSucceeds(r, p)

\* C14: once a run was cancelled and a newer run has been started, no step
\* of the cancelled run changes docState (pages, progress, status) any more.
C14_CancelledRunIsolated ==
  [][\A r \in cancelledRuns :
       (r < nruns /\ RunStep(r)) => docState' = docState]_vars

\* C15: after stopExtraction was called during a run, that run dispatches no
\* further batch (batches are dispatched whole, so every task dispatched
\* after the signal belongs to a further batch).
C15_NoDispatchAfterCancel ==
  [][\A r \in cancelledRuns : chunks'[r] = chunks[r] \/ nruns' = 0]_vars

\* C16: once a page task of a run was rejected, the run is in its catch
\* block's end state (the failure has left the batch loop) and no task of a
\* later batch is ever dispatched.
C16_FailureStopsDispatch ==
  \A r \in Runs, p \in PageNums :
    task[r][p] = "thrown" =>
      /\ pc[r] = "error"
      /\ \A q \in PageNums : ChunkOf(q) > ChunkOf(p) => task[r][q] = "none"
      /\ Len(chunks[r]) = ChunkOf(p) + 1

\* C16 witness: a task of the first batch of a document with more than one
\* batch was rejected while its sibling was still pending, and the sibling
\* has settled since.
C16_Witness ==
  \E r \in Runs, p, q \in 1..concurrencyLimit :
    /\ totalPages[r] > concurrencyLimit
    /\ task[r][p] = "thrown"
    /\ task[r][q] = "page"
    /\ docState.status = "error"

\* C17: after a failure has put a run into Error, the successful settlement
\* of a sibling task that was still in flight changes neither pages nor
\* progress.
C17_SiblingResultsDiscarded ==
  [][\A r \in Runs, p \in PageNums :
       (pc[r] = "error" /\ OCRSucceeds(r, p)) =>
         /\ docState'.pages = docState.pages
         /\ docState'.progress = docState.progress]_vars

\* C18: in every Processing state progress = round(100 |pages| / totalPages)
\* for the run in Processing (0 while its page count is not known yet).
C18_ProgressFormula ==
  docState.status = "processing" =>
    docState.progress =
      IF totalPages[nruns] = 0 THEN 0
      ELSE Round100(Len(docState.pages), totalPages[nruns])

NumChunks(t) == (t + concurrencyLimit - 1) \div concurrencyLimit

\* C20: a run that completed without cancellation (and so without failure)
\* has dispatched ceil(T/K) batches of consecutive page numbers, all of size
\* K except the last, which has the remaining T - K (ceil(T/K) - 1), and
\* every page number of 1..T in exactly one batch.
C20_ChunkPartition ==
  \A r \in Runs :
    (pc[r] = "completed" /\ r \notin cancelledRuns) =>
      LET T == totalPages[r]
          N == NumChunks(T)
      IN /\ Len(chunks[r]) = N
         /\ \A c \in 1..N :
              chunks[r][c] = ((c - 1) * concurrencyLimit + 1)..
                               (IF c < N THEN c * concurrencyLimit ELSE T)
         /\ \A c \in 1..(N - 1) : Cardinality(chunks[r][c]) = concurrencyLimit
         /\ Cardinality(chunks[r][N]) = T - concurrencyLimit * (N - 1)
         /\ \A p \in 1..T : Cardinality({c \in 1..N : p \in chunks[r][c]}) = 1
         /\ \A c \in 1..N : chunks[r][c] \subseteq 1..T

\* C20 witness: an uncancelled run over a document whose last batch is not
\* full has completed with every page extracted.
C20_Witness ==
  \E r \in Runs :
    /\ pc[r] = "completed"
    /\ r \notin cancelledRuns
    /\ totalPages[r] = concurrencyLimit + 1
    /\ Len(chunks[r]) = 2
    /\ Len(results[r]) = totalPages[r]

\* C21: a page task of a run whose cancellation was signaled (before the
\* task started or while it is rasterizing) never goes on from rasterization
\* to the extraction call (performOCR).
C21_CancelledTaskNeverExtracts ==
  [][\A r \in cancelledRuns, p \in PageNums :
       task[r][p] = "raster" => task'[r][p] # "ocr"]_vars

\* C22: within one run performOCR is called at most once for each page
\* number, and a task whose call was rejected is never dispatched again: it
\* stays rejected and its run is in the catch block's end state.
C22_NoRetry ==
  \A r \in Runs, p \in PageNums :
    /\ ocrCalls[r][p] <= 1
    /\ task[r][p] \in {"ocr", "page"} => ocrCalls[r][p] = 1
    /\ task[r][p] = "thrown" => pc[r] = "error"

\* C22 witness: the performOCR call of a page was rejected, the run is in
\* Error, and a sibling of the same batch has been extracted since.
C22_Witness ==
  \E r \in Runs, p, q \in PageNums :
    /\ task[r][p] = "thrown"
    /\ ocrCalls[r][p] = 1
    /\ pc[r] = "error"
    /\ task[r][q] = "page"
    /\ ChunkOf(p) = ChunkOf(q)

\* C23: fullText is non-empty only in Completed states: in Idle, Processing
\* and Error states it is the empty string.
C23_FullTextOnlyCompleted ==
  docState.fullText # "" => docState.status = "completed"

\* C24: when performOCR of a page is fulfilled while the page's run is in
\* Processing and was not cancelled, the page is in docState.pages in the
\* state right after that step, whether or not the other tasks of its batch
\* have settled and whether or not the run has completed.
C24_IncrementalVisibility ==
  [][\A r \in Runs, p \in PageNums :
       (OCRSucceeds(r, p) /\ docState.status = "processing" /\ r \notin cancelledRuns)
         => \E k \in 1..Len(docState'.pages) : docState'.pages[k] = newPage(r, p)]_vars

\* C24 witness: the run in Processing, not cancelled, shows an extracted page
\* of a batch of which another task is still pending, with batches left to
\* dispatch.
C24_Witness ==
  \E r \in Runs, p, q \in PageNums :
    /\ r = nruns
    /\ r \notin cancelledRuns
    /\ docState.status = "processing"
    /\ task[r][p] = "page"
    /\ task[r][q] \in {"raster", "ocr"}
    /\ ChunkOf(p) = ChunkOf(q)
    /\ totalPages[r] > i[r] + concurrencyLimit
    /\ docState.pages = <<newPage(r, p)>>

\* ---- liveness ----------------------------------------------------------
\* Every promise a run awaits (the document load, the rendering of a page,
\* performOCR) is eventually settled, one way or the other.  Nothing is
\* assumed about the user: stopExtraction may never be called.
Fairness == \A r \in Runs : WF_vars(RunStep(r))

\* the uploads of the liveness specification: documents of up to MaxLivePages
\* pages
LiveFiles == {f \in Files(nruns + 1) : f.numPages <= MaxLivePages}

NextLive ==
  \/ stopExtraction
  \/ \E f \in LiveFiles : handleFileUpload(f)
  \/ ResetApplication
  \/ \E r \in Runs : LoadDocument(r)
  \/ \E r \in Runs, msg \in ErrorMessages : LoadFails(r, msg)
  \/ \E r \in Runs, p \in PageNums : RenderPage(r, p)
  \/ \E r \in Runs, p \in PageNums : NoContext(r, p)
  \/ \E r \in Runs, p \in PageNums, msg \in ErrorMessages : RenderFails(r, p, msg)
  \/ \E r \in Runs, p \in PageNums : OCRSucceeds(r, p)
  \/ \E r \in Runs, p \in PageNums, msg \in ErrorMessages : OCRFails(r, p, msg)

SpecLive == Init /\ [][NextLive]_vars /\ Fairness

\* C25: when every promise of a run is eventually settled, a state with
\* status Processing is followed by one with another status and every
\* invocation of handleFileUpload comes to its end (completed, catch block,
\* return after cancellation); stopExtraction is available in every
\* Processing state, whatever is pending, and its step ends in Idle.
C25_LeavesProcessing ==
  /\ (docState.status = "processing") ~> (docState.status # "processing")
  /\ \A r \in Runs : (pc[r] \in {"loading", "await"}) ~> (pc[r] \notin {"loading", "await"})
  /\ [](docState.status = "processing" => ENABLED stopExtraction)
  /\ [][stopExtraction => docState'.status = "idle"]_vars

\* C25 witness: a run whose first batch is pending was cancelled and the
\* status is Idle, and one of its performOCR calls is still unsettled.
C25_Witness ==
  \E r \in Runs, p \in PageNums :
    /\ r = nruns
    /\ r \in cancelledRuns
    /\ docState.status = "idle"
    /\ pc[r] = "await"
    /\ task[r][p] = "ocr"

\* C26: at the Completed transition of a run that was not cancelled (and, as
\* it completes, had no failure), the pages written from results are the
\* pages accumulated by the merges of processPage up to that point, the
\* merge of the last settlement included: same page numbers, same texts,
\* same order.
C26_ResultsEqualIncremental ==
  [][\A r \in Runs, p \in PageNums :
       (pc[r] = "await" /\ pc'[r] = "completed" /\ r \notin cancelledRuns) =>
         /\ OCRSucceeds(r, p) =>
              docState'.pages = MergePage(docState, newPage(r, p), totalPages[r]).pages
         /\ (RenderPage(r, p) \/ NoContext(r, p)) =>
              docState'.pages = docState.pages]_vars
====
